---- MODULE Spec2Model ----
(***************************************************************************)
(* Kiosk API (src/index.js): an Express service with three routes          *)
(*   GET /      health check                                               *)
(*   POST /log  validate the four fields, INSERT one interaction row       *)
(*   GET /all   SELECT ... LEFT JOIN kiosk_locations ORDER BY timestamp    *)
(*              DESC LIMIT 100                                             *)
(* Each async handler suspends only at its `await db.query(...)`; the      *)
(* database executes the pending statement in a step of its own, and the   *)
(* handler resumes in its try-continuation or in its catch block.          *)
(*                                                                         *)
(* JSON values are tagged records [ty, v]: ty is the JavaScript type and v *)
(* a natural number; for a string v = 0 is the empty string and v > 0 the  *)
(* v-th non-empty string, for a timestamp v is also its rank in the        *)
(* column's order.                                                         *)
(***************************************************************************)
EXTENDS Integers, Sequences, FiniteSets, TLC

\* ---------------------------------------------------------------- bounds
MaxReq == 2          \* number of requests in one behaviour
BaseRows == 100      \* rows of the store that may exist before the service starts
MaxTs == 3           \* timestamps have ranks 1..MaxTs

\* ------------------------------------------------------- program constants
LIMIT == 100         \* LIMIT 100 of the listing query

Requests == 1..MaxReq

\* ------------------------------------------------------------ JSON values
Undef == [ty |-> "undef", v |-> 0]
Null == [ty |-> "null", v |-> 0]
Bool(b) == [ty |-> "bool", v |-> IF b THEN 1 ELSE 0]
Num(n) == [ty |-> "num", v |-> n]
Str(n) == [ty |-> "str", v |-> n]

\* mutant: a check for undefined and null only
TruthyNullish(x) == x.ty \notin {"undef", "null"}

\* JavaScript ToBoolean, as used by the ! operator of the validation
Truthy(x) ==
  CASE x.ty = "undef" -> FALSE
    [] x.ty = "null" -> FALSE
    [] x.ty = "bool" -> x.v = 1
    [] x.ty = "num" -> x.v # 0
    [] x.ty = "str" -> x.v # 0

Falsies == {Undef, Null, Bool(FALSE), Num(0), Str(0)}

Home == Str(1)
Tap == Str(2)
K1 == Str(3)
K2 == Str(4)
Lobby == Str(5)

Body(s, a, t, k) == [screen |-> s, action |-> a, timestamp |-> t, kioskId |-> k]
EmptyBody == Body(Undef, Undef, Undef, Undef)

ValidBodies ==
  {Body(Home, Tap, t, k) : t \in {Str(1), Num(2), Str(MaxTs)}, k \in {K1, K2}}

\* one field falsy, or the scenario body {screen, action} only
InvalidBodies ==
  {Body(f, Tap, Str(1), K1) : f \in Falsies} \cup
  {Body(Home, f, Str(1), K1) : f \in Falsies} \cup
  {Body(Home, Tap, f, K1) : f \in Falsies} \cup
  {Body(Home, Tap, Str(1), f) : f \in Falsies} \cup
  {Body(Home, Tap, Undef, Undef)}

Bodies == ValidBodies \cup InvalidBodies

\* ------------------------------------------------------------- the store
Row(s, a, t, k) == [screen |-> s, action |-> a, timestamp |-> t, kiosk_id |-> k]

BaseStore ==
  [i \in 1..BaseRows |->
     Row(Home, Tap, Str((i % MaxTs) + 1), IF i % 2 = 0 THEN K1 ELSE K2)]

\* kiosk metadata, friendly_name keyed by kiosk_id; K2 has no entry
kiosk_locations == {[kiosk_id |-> K1, friendly_name |-> Lobby]}

\* --------------------------------------------------------------- responses
Response(st, tx, rs) == [status |-> st, text |-> tx, rows |-> rs]
NoResponse == Response(0, "", <<>>)
NoQuery == [sql |-> "none", params |-> <<>>]

VARIABLES
  store,     \* table interactions, in insertion order
  origin,    \* history: origin[i] is the request that wrote store[i], 0 if none
  kind,      \* kind[r]: "none" before arrival, then "health", "log" or "all"
  body,      \* body[r]: req.body
  pc,        \* pc[r]: position of the handler of request r
  pending,   \* pending[r]: the statement handed to db.query and not yet settled
  result,    \* result[r]: result.rows of a settled select
  res,       \* res[r]: the last response sent
  nsent,     \* history: number of responses sent for r
  ncalls,    \* history: number of db.query calls made for r
  seen,      \* history: Len(store) when the select of r was executed
  outcome    \* history: how the db.query call of r settled: "none", "ok", "err"

vars == <<store, origin, kind, body, pc, pending, result, res, nsent, ncalls, seen, outcome>>

Init ==
  /\ store \in {<<>>, BaseStore}
  /\ origin = [i \in 1..Len(store) |-> 0]
  /\ kind = [r \in Requests |-> "none"]
  /\ body = [r \in Requests |-> EmptyBody]
  /\ pc = [r \in Requests |-> "idle"]
  /\ pending = [r \in Requests |-> NoQuery]
  /\ result = [r \in Requests |-> <<>>]
  /\ res = [r \in Requests |-> NoResponse]
  /\ nsent = [r \in Requests |-> 0]
  /\ ncalls = [r \in Requests |-> 0]
  /\ seen = [r \in Requests |-> 0]
  /\ outcome = [r \in Requests |-> "none"]

\* requests arrive in the order of their numbers
Arrives(r) == pc[r] = "idle" /\ (IF r = 1 THEN TRUE ELSE kind[r - 1] # "none")

\* res.status(st).json(..) / res.send(..)
Send(r, rsp) ==
  /\ res' = [res EXCEPT ![r] = rsp]
  /\ nsent' = [nsent EXCEPT ![r] = @ + 1]

\* db.query(text, params)
Query(r, sql, params) ==
  /\ pending' = [pending EXCEPT ![r] = [sql |-> sql, params |-> params]]
  /\ ncalls' = [ncalls EXCEPT ![r] = @ + 1]

\* mutant: a health check that probes the database before it answers
HealthProbe(r) ==
  /\ Arrives(r)
  /\ kind' = [kind EXCEPT ![r] = "health"]
  /\ pc' = [pc EXCEPT ![r] = "awaitSelect"]
  /\ Query(r, "select", <<>>)
  /\ UNCHANGED <<store, origin, body, result, res, nsent, seen, outcome>>

\* app.get('/')
Health(r) ==
  /\ Arrives(r)
  /\ kind' = [kind EXCEPT ![r] = "health"]
  /\ pc' = [pc EXCEPT ![r] = "done"]
  /\ Send(r, Response(200, "Kiosk API is running", <<>>))
  /\ UNCHANGED <<store, origin, body, pending, result, ncalls, seen, outcome>>

\* mutant: the check of kioskId left out
MissingNoKiosk(b) ==
  ~Truthy(b.screen) \/ ~Truthy(b.action) \/ ~Truthy(b.timestamp)

\* the validation of app.post('/log')
Missing(b) ==
  ~Truthy(b.screen) \/ ~Truthy(b.action) \/ ~Truthy(b.timestamp) \/ ~Truthy(b.kioskId)

\* mutant: the first two parameters exchanged
InsertParamsSwapped(b) == <<b.action, b.screen, b.timestamp, b.kioskId>>

\* the parameter list of the insert
InsertParams(b) == <<b.screen, b.action, b.timestamp, b.kioskId>>

\* mutant: the return of the 400 branch left out
LogBeginNoReturn(r, b) ==
  /\ Arrives(r)
  /\ kind' = [kind EXCEPT ![r] = "log"]
  /\ body' = [body EXCEPT ![r] = b]
  /\ IF Missing(b)
       THEN /\ Send(r, Response(400, "Missing required fields", <<>>))
       ELSE /\ UNCHANGED <<res, nsent>>
  /\ pc' = [pc EXCEPT ![r] = "awaitInsert"]
  /\ Query(r, "insert", InsertParams(b))
  /\ UNCHANGED <<store, origin, result, seen, outcome>>

\* app.post('/log') up to its await
LogBegin(r, b) ==
  /\ Arrives(r)
  /\ kind' = [kind EXCEPT ![r] = "log"]
  /\ body' = [body EXCEPT ![r] = b]
  /\ IF Missing(b)
       THEN /\ pc' = [pc EXCEPT ![r] = "done"]
            /\ Send(r, Response(400, "Missing required fields", <<>>))
            /\ UNCHANGED <<pending, ncalls>>
       ELSE /\ pc' = [pc EXCEPT ![r] = "awaitInsert"]
            /\ Query(r, "insert", InsertParams(b))
            /\ UNCHANGED <<res, nsent>>
  /\ UNCHANGED <<store, origin, result, seen, outcome>>

\* ------------------------------------------------- the two SQL statements
\* INSERT INTO interactions (screen, action, timestamp, kiosk_id)
\*   VALUES ($1, $2, $3, $4)
InsertRow(params) == Row(params[1], params[2], params[3], params[4])

Joined(i, name) ==
  [screen |-> i.screen, action |-> i.action, timestamp |-> i.timestamp,
   kiosk_id |-> i.kiosk_id, friendly_name |-> name]

RECURSIVE SetToSeq(_)
SetToSeq(S) ==
  IF S = {} THEN <<>>
  ELSE LET x == CHOOSE y \in S : TRUE IN <<x>> \o SetToSeq(S \ {x})

\* mutant: an inner join
InnerJoinRow(i, kl) ==
  SetToSeq({Joined(i, k.friendly_name) : k \in {e \in kl : e.kiosk_id = i.kiosk_id}})

\* i.*, k.friendly_name FROM interactions i LEFT JOIN kiosk_locations k
\*   ON i.kiosk_id = k.kiosk_id : the joined rows of one interaction row
LeftJoinRow(i, kl) ==
  LET m == {k \in kl : k.kiosk_id = i.kiosk_id}
  IN IF m = {} THEN <<Joined(i, Null)>>
     ELSE SetToSeq({Joined(i, k.friendly_name) : k \in m})

\* the joined rows of st[lo..hi], in the order of st
RECURSIVE LeftJoinRange(_, _, _, _)
LeftJoinRange(st, kl, lo, hi) ==
  IF lo > hi THEN <<>>
  ELSE IF lo = hi THEN LeftJoinRow(st[lo], kl)
  ELSE LET mid == (lo + hi) \div 2
       IN LeftJoinRange(st, kl, lo, mid) \o LeftJoinRange(st, kl, mid + 1, hi)

LeftJoin(st, kl) == LeftJoinRange(st, kl, 1, Len(st))

Reverse(s) == [i \in 1..Len(s) |-> s[Len(s) + 1 - i]]

\* the column order of timestamp
TsKey(t) == t.v

\* ORDER BY i.timestamp DESC : rows of equal timestamp keep the order of rs
RECURSIVE OrderFrom(_, _)
OrderFrom(rs, k) ==
  IF k < 0 THEN <<>>
  ELSE SelectSeq(rs, LAMBDA x : TsKey(x.timestamp) = k) \o OrderFrom(rs, k - 1)

OrderByTimestampDesc(rs) == OrderFrom(rs, MaxTs)

\* mutant: a limit that is off by one
LimitOffByOne(rs) == SubSeq(rs, 1, IF Len(rs) < LIMIT + 1 THEN Len(rs) ELSE LIMIT + 1)

\* LIMIT 100
Limit(rs) == SubSeq(rs, 1, IF Len(rs) < LIMIT THEN Len(rs) ELSE LIMIT)

\* the listing query (the text of index.js 38-42, read as one string literal
\* spanning the five lines); SQL leaves the order of rows of equal timestamp open:
\* tie selects the scan order the sort starts from
Ties == {"heap", "reverse"}
SelectAll(st, kl, tie) ==
  LET j == LeftJoin(st, kl)
  IN Limit(OrderByTimestampDesc(IF tie = "heap" THEN j ELSE Reverse(j)))

\* ------------------------------------------------------- storage adapter
\* db.query settles the pending insert: the row is written
DbInsertOk(r) ==
  /\ pc[r] = "awaitInsert"
  /\ store' = Append(store, InsertRow(pending[r].params))
  /\ origin' = Append(origin, r)
  /\ pending' = [pending EXCEPT ![r] = NoQuery]
  /\ pc' = [pc EXCEPT ![r] = "insertOk"]
  /\ outcome' = [outcome EXCEPT ![r] = "ok"]
  /\ UNCHANGED <<kind, body, result, res, nsent, ncalls, seen>>

\* db.query settles the pending select with its rows
DbSelectOk(r, tie) ==
  /\ pc[r] = "awaitSelect"
  /\ result' = [result EXCEPT ![r] = SelectAll(store, kiosk_locations, tie)]
  /\ seen' = [seen EXCEPT ![r] = Len(store)]
  /\ pending' = [pending EXCEPT ![r] = NoQuery]
  /\ pc' = [pc EXCEPT ![r] = "selectOk"]
  /\ outcome' = [outcome EXCEPT ![r] = "ok"]
  /\ UNCHANGED <<store, origin, kind, body, res, nsent, ncalls>>

\* db.query rejects: any database-level error, nothing is written
DbError(r) ==
  /\ pc[r] \in {"awaitInsert", "awaitSelect"}
  /\ pending' = [pending EXCEPT ![r] = NoQuery]
  /\ pc' = [pc EXCEPT ![r] = IF pc[r] = "awaitInsert" THEN "insertErr" ELSE "selectErr"]
  /\ outcome' = [outcome EXCEPT ![r] = "err"]
  /\ UNCHANGED <<store, origin, kind, body, result, res, nsent, ncalls, seen>>

\* ------------------------------------------------ handler continuations
\* mutant: a success path that never answers
LogThenNoReply(r) ==
  /\ pc[r] = "insertOk"
  /\ pc' = [pc EXCEPT ![r] = "done"]
  /\ UNCHANGED <<store, origin, kind, body, pending, result, res, nsent, ncalls, seen, outcome>>

\* app.post('/log') after the await
LogThen(r) ==
  /\ pc[r] = "insertOk"
  /\ pc' = [pc EXCEPT ![r] = "done"]
  /\ Send(r, Response(200, "Interaction logged", <<>>))
  /\ UNCHANGED <<store, origin, kind, body, pending, result, ncalls, seen, outcome>>

\* mutant: a catch block that tries the insert again
LogCatchRetry(r) ==
  /\ pc[r] = "insertErr"
  /\ pc' = [pc EXCEPT ![r] = "awaitInsert"]
  /\ Query(r, "insert", InsertParams(body[r]))
  /\ UNCHANGED <<store, origin, kind, body, result, res, nsent, seen, outcome>>

\* app.post('/log'), catch block
LogCatch(r) ==
  /\ pc[r] = "insertErr"
  /\ pc' = [pc EXCEPT ![r] = "done"]
  /\ Send(r, Response(500, "Database error", <<>>))
  /\ UNCHANGED <<store, origin, kind, body, pending, result, ncalls, seen, outcome>>

\* app.get('/all') up to its await
AllBegin(r) ==
  /\ Arrives(r)
  /\ kind' = [kind EXCEPT ![r] = "all"]
  /\ pc' = [pc EXCEPT ![r] = "awaitSelect"]
  /\ Query(r, "select", <<>>)
  /\ UNCHANGED <<store, origin, body, result, res, nsent, seen, outcome>>

\* app.get('/all') after the await: res.json(result.rows)
AllThen(r) ==
  /\ pc[r] = "selectOk"
  /\ pc' = [pc EXCEPT ![r] = "done"]
  /\ Send(r, Response(200, "", result[r]))
  /\ UNCHANGED <<store, origin, kind, body, pending, result, ncalls, seen, outcome>>

\* mutant: a catch block that answers with an empty list
AllCatchEmpty(r) ==
  /\ pc[r] = "selectErr"
  /\ pc' = [pc EXCEPT ![r] = "done"]
  /\ Send(r, Response(200, "", <<>>))
  /\ UNCHANGED <<store, origin, kind, body, pending, result, ncalls, seen, outcome>>

\* app.get('/all'), catch block
AllCatch(r) ==
  /\ pc[r] = "selectErr"
  /\ pc' = [pc EXCEPT ![r] = "done"]
  /\ Send(r, Response(500, "Failed to fetch logs", <<>>))
  /\ UNCHANGED <<store, origin, kind, body, pending, result, ncalls, seen, outcome>>

Next ==
  \/ \E r \in Requests : Health(r)
  \/ \E r \in Requests, b \in Bodies : LogBegin(r, b)
  \/ \E r \in Requests : AllBegin(r)
  \/ \E r \in Requests : DbInsertOk(r)
  \/ \E r \in Requests, tie \in Ties : DbSelectOk(r, tie)
  \/ \E r \in Requests : DbError(r)
  \/ \E r \in Requests : LogThen(r)
  \/ \E r \in Requests : LogCatch(r)
  \/ \E r \in Requests : AllThen(r)
  \/ \E r \in Requests : AllCatch(r)

Spec == Init /\ [][Next]_vars

\* the runtime runs every resumed handler, and the adapter settles every call;
\* whether a request is answered does not depend on the rows already stored,
\* so the fair behaviours are explored from the empty store
Settle(r) == DbInsertOk(r) \/ (\E tie \in Ties : DbSelectOk(r, tie)) \/ DbError(r)
Resume(r) == LogThen(r) \/ LogCatch(r) \/ AllThen(r) \/ AllCatch(r)
FairInit == Init /\ store = <<>>
FairSpec ==
  FairInit /\ [][Next]_vars /\ \A r \in Requests : WF_vars(Settle(r)) /\ WF_vars(Resume(r))

\* ============================================================ properties
IsLog(r) == kind[r] = "log"
IsAll(r) == kind[r] = "all"
Done(r) == pc[r] = "done"

\* the rows of the store written by request r
RowsOf(r) == {i \in 1..Len(store) : origin[i] = r}

Fields(b) == {b.screen, b.action, b.timestamp, b.kioskId}
AllFour(b) == Fields(b) \cap Falsies = {}
SomeAbsent(b) == Undef \in Fields(b)

\* the row that carries the values submitted in b
Submitted(b) == Row(b.screen, b.action, b.timestamp, b.kioskId)

OneRowOf(r) ==
  /\ Cardinality(RowsOf(r)) = 1
  /\ \A i \in RowsOf(r) : store[i] = Submitted(body[r])

Logged == Response(200, "Interaction logged", <<>>)
MissingFields == Response(400, "Missing required fields", <<>>)
DatabaseError == Response(500, "Database error", <<>>)
FetchFailed == Response(500, "Failed to fetch logs", <<>>)
Running == Response(200, "Kiosk API is running", <<>>)

\* C1 as stated: every finished POST /log whose four fields are all present
\* has written exactly one row with the submitted values and was answered
\* 200 "Interaction logged".
C1_Original ==
  \A r \in Requests :
    (IsLog(r) /\ Done(r) /\ AllFour(body[r])) => (OneRowOf(r) /\ res[r] = Logged)

\* C1 amended: every POST /log whose four fields are all present and whose
\* insert did not fail has, once the insert is settled, exactly one row with
\* the submitted values, and once finished the response 200 "Interaction logged".
C1_IngestWritesOneRow ==
  \A r \in Requests :
    (IsLog(r) /\ AllFour(body[r]) /\ outcome[r] # "err") =>
      /\ pc[r] \in {"awaitInsert", "insertOk", "done"}
      /\ (pc[r] = "awaitInsert") = (RowsOf(r) = {})
      /\ (pc[r] # "awaitInsert") => OneRowOf(r)
      /\ Done(r) => (res[r] = Logged /\ nsent[r] = 1)

C1_Witness ==
  \E r \in Requests :
    IsLog(r) /\ Done(r) /\ AllFour(body[r]) /\ outcome[r] = "ok" /\ res[r].status = 200

\* what a step has established for a POST /log with an absent field
C2_Step(r) ==
  (IsLog(r)' /\ SomeAbsent(body'[r])) =>
    /\ pc'[r] = "done"
    /\ res'[r] = MissingFields
    /\ nsent'[r] = 1
    /\ ncalls'[r] = 0
    /\ pending'[r] = NoQuery
    /\ RowsOf(r)' = {}
    /\ (pc[r] = "idle") => (store' = store /\ origin' = origin)

\* C2: a POST /log with a missing field is answered 400 "Missing required
\* fields" in the step that receives it, without a call of the storage
\* adapter and without a change of the store, and never writes a row.
C2_MissingRejected == [][\A r \in Requests : C2_Step(r)]_vars

C2_Witness ==
  \E r \in Requests :
    IsLog(r) /\ Done(r) /\ SomeAbsent(body[r]) /\ res[r].status = 400

\* C3: a valid POST /log whose insert failed has written no row, has called
\* the storage adapter exactly once, and is answered 500 "Database error".
C3_InsertFailure ==
  \A r \in Requests :
    (IsLog(r) /\ outcome[r] = "err") =>
      /\ RowsOf(r) = {}
      /\ ncalls[r] = 1
      /\ pending[r] = NoQuery
      /\ pc[r] \in {"insertErr", "done"}
      /\ Done(r) => (res[r] = DatabaseError /\ nsent[r] = 1)

C3_Witness ==
  \E r \in Requests : IsLog(r) /\ outcome[r] = "err" /\ Done(r) /\ Len(store) > 0

\* the store as the select of request r saw it
Seen(r) == SubSeq(store, 1, seen[r])

Min(a, b) == IF a < b THEN a ELSE b
Columns(x) == Row(x.screen, x.action, x.timestamp, x.kiosk_id)
CountGE(rs, k) == Cardinality({i \in 1..Len(rs) : rs[i].timestamp.v >= k})
Occurs(rs, x) == Cardinality({i \in 1..Len(rs) : rs[i] = x})
Projected(rs) == [i \in 1..Len(rs) |-> Columns(rs[i])]

\* rows is a newest-first listing of the most recent rows of st
RecentOf(rows, st) ==
  /\ Len(rows) <= 100
  /\ Len(rows) = Min(100, Len(st))
  /\ \A i \in 1..(Len(rows) - 1) : rows[i].timestamp.v >= rows[i + 1].timestamp.v
  /\ \A k \in 0..(MaxTs + 1) : CountGE(rows, k) = Min(100, CountGE(st, k))
  /\ \A x \in {Columns(rows[i]) : i \in 1..Len(rows)} :
       Occurs(Projected(rows), x) <= Occurs(st, x)
  /\ (st = <<>>) => (rows = <<>>)

Answers(r) == pc[r] = "selectOk" /\ pc'[r] = "done"

\* C4: the answer of a GET /all whose select succeeded is 200 with at most
\* 100 rows, sorted by timestamp descending, which are the min(100, n) rows
\* of greatest timestamp of the n rows the select saw; the empty array for
\* an empty store.
C4_RecentRows ==
  [][\A r \in Requests :
       Answers(r) => (res'[r].status = 200 /\ RecentOf(res'[r].rows, Seen(r)))]_vars

C4_Witness ==
  \E r \in Requests :
    /\ IsAll(r) /\ Done(r) /\ outcome[r] = "ok"
    /\ seen[r] > 100 /\ Len(res[r].rows) = 100
    /\ \E i \in 1..seen[r] : origin[i] # 0

Names(x) == {k.friendly_name : k \in {e \in kiosk_locations : e.kiosk_id = x.kiosk_id}}

\* rows is the listing of st enriched from kiosk_locations
C5_Enriched(rows, st) ==
  /\ \A i \in 1..Len(rows) :
       IF Names(rows[i]) = {} THEN rows[i].friendly_name = Null
       ELSE rows[i].friendly_name \in Names(rows[i])
  /\ Len(rows) = Min(100, Len(st))
  /\ (Len(st) <= 100) => \A j \in 1..Len(st) :
       Occurs(Projected(rows), st[j]) = Occurs(st, st[j])

\* C5: every row of the answer of GET /all carries the friendly_name of the
\* kiosk metadata entry with its kiosk_id, or null when there is none; a
\* row without an entry is not dropped: when the store has at most 100
\* rows every stored row is listed.
C5_FriendlyName ==
  [][\A r \in Requests : Answers(r) => C5_Enriched(res'[r].rows, Seen(r))]_vars

C5_Witness ==
  \E r \in Requests :
    /\ IsAll(r) /\ Done(r) /\ res[r].status = 200
    /\ \E i, j \in 1..Len(res[r].rows) :
         /\ res[r].rows[i].friendly_name = Null /\ res[r].rows[i].kiosk_id = K2
         /\ res[r].rows[j].friendly_name = Lobby /\ res[r].rows[j].kiosk_id = K1

\* C6: a GET /all whose select failed is answered 500 "Failed to fetch logs",
\* never 200 with a row list; a GET /all writes no row.
C6_SelectFailure ==
  \A r \in Requests :
    IsAll(r) =>
      /\ RowsOf(r) = {}
      /\ (outcome[r] = "err") =>
           /\ pc[r] \in {"selectErr", "done"}
           /\ res[r].status # 200
           /\ Done(r) => (res[r] = FetchFailed /\ nsent[r] = 1)

C6_Witness ==
  \E r \in Requests : IsAll(r) /\ outcome[r] = "err" /\ Done(r) /\ Len(store) > 0

\* what one step may do to the store
C7_Step ==
  /\ Len(store') >= Len(store)
  /\ SubSeq(store', 1, Len(store)) = store
  /\ SubSeq(origin', 1, Len(origin)) = origin
  /\ Len(store') # Len(store) =>
       /\ Len(store') = Len(store) + 1
       /\ \E r \in Requests :
            /\ origin'[Len(store')] = r
            /\ IsLog(r) /\ AllFour(body[r])
            /\ res[r].status # 400
            /\ RowsOf(r) = {}

\* C7: the store is append-only: every step keeps the rows already written
\* as they are, and a step that adds a row adds exactly one, written by a
\* POST /log that passed validation and had not written a row before.
C7_AppendOnly == [][C7_Step]_vars

\* a row written by one ingestion, kept while another one was rejected
C7_Witness ==
  /\ \E i \in 1..Len(store) : i > 1 /\ origin[i] # 0 /\ origin[1] = 0
  /\ \E r \in Requests : IsLog(r) /\ Done(r) /\ res[r].status = 400 /\ origin[Len(store)] < r
  /\ \A r \in Requests : Done(r)

\* what a step has established for a GET /
C8_Step(r) ==
  (kind'[r] = "health") =>
    /\ pc'[r] = "done"
    /\ res'[r] = Running
    /\ nsent'[r] = 1
    /\ ncalls'[r] = 0
    /\ pending'[r] = NoQuery
    /\ outcome'[r] = "none"
    /\ RowsOf(r)' = {}
    /\ (kind[r] = "none") => (store' = store /\ origin' = origin)

\* C8: GET / is answered 200 "Kiosk API is running" in the step that receives
\* it, whatever the state of the other requests: it calls no storage, leaves
\* the store as it is and has no other response.
C8_HealthAlways == [][\A r \in Requests : C8_Step(r)]_vars

\* a health check answered after the storage call of an earlier request failed
C8_Witness ==
  \E r, q \in Requests :
    /\ kind[r] = "health" /\ Done(r) /\ res[r].status = 200
    /\ q < r /\ outcome[q] = "err"

\* C9: a POST /log is rejected with 400 exactly when one of its four values
\* is undefined, null, "", false or 0; a rejected request calls no storage
\* and writes no row; a written row holds the timestamp as provided.
C9_TruthyOnly ==
  \A r \in Requests :
    IsLog(r) =>
      /\ (Fields(body[r]) \cap {Undef, Null, Str(0), Bool(FALSE), Num(0)} # {})
           = (Done(r) /\ res[r].status = 400)
      /\ (res[r].status = 400) => (RowsOf(r) = {} /\ ncalls[r] = 0)
      /\ \A i \in RowsOf(r) : store[i].timestamp = body[r].timestamp

C9_Witness ==
  /\ \E r \in Requests :
       IsLog(r) /\ body[r].timestamp = Num(0) /\ res[r].status = 400
  /\ \E r \in Requests :
       IsLog(r) /\ body[r].timestamp = Num(2) /\ RowsOf(r) # {}

\* the response that the request r is due, from its own input and outcome
Due(r) ==
  CASE kind[r] = "health" -> Running
    [] kind[r] = "log" ->
         IF ~AllFour(body[r]) THEN MissingFields
         ELSE IF outcome[r] = "ok" THEN Logged ELSE DatabaseError
    [] kind[r] = "all" ->
         IF outcome[r] = "ok" THEN Response(200, "", result[r]) ELSE FetchFailed
    [] OTHER -> NoResponse

C10_Inv ==
  /\ \A r \in Requests :
       /\ nsent[r] = (IF Done(r) THEN 1 ELSE 0)
       /\ Done(r) => res[r] = Due(r)
       /\ IF IsLog(r) /\ AllFour(body[r]) /\ outcome[r] = "ok"
            THEN OneRowOf(r) ELSE RowsOf(r) = {}
  /\ \A i \in 1..Len(store) : origin[i] = 0 => (i <= BaseRows /\ store[i] = BaseStore[i])
  /\ Cardinality({i \in 1..Len(store) : origin[i] = 0}) \in {0, BaseRows}

\* C10: in every interleaving each request gets exactly one response, which
\* depends on its own input and storage outcome only, and the store holds
\* exactly one row, with the request's own values, per valid POST /log whose
\* insert succeeded, besides the rows it started with.
C10_Independent ==
  /\ []C10_Inv
  /\ \A r \in Requests : (kind[r] # "none") ~> (Done(r) /\ nsent[r] = 1)

\* an ingestion that arrived later has succeeded and been answered while an
\* earlier one, whose insert failed, is not answered yet
C10_Witness ==
  \E r, q \in Requests :
    /\ r < q /\ IsLog(r) /\ IsLog(q)
    /\ pc[r] = "insertErr" /\ Done(q) /\ outcome[q] = "ok"
    /\ RowsOf(q) # {}
    /\ body[r] # body[q]

====
